---- MODULE Spec2Model ----
(***************************************************************************)
(* Model of scripts/smtp-test.py: the SMTPTester probe runner.             *)
(*                                                                         *)
(* State: the SMTPTester object (self.results), the locals of              *)
(* run_all_tests (tests, the loop position, passed, total, the return      *)
(* value), the report file /tmp/smtp-test-results.json and the process     *)
(* exit code.  The remote servers are the environment: what each of them   *)
(* answers is drawn when a probe first asks and stays fixed afterwards     *)
(* (a server's policy does not change between two runs).                   *)
(*                                                                         *)
(* Left out: the 'timestamp' field of a result (datetime.now()), console   *)
(* output, and time.sleep(1) between probes.                               *)
(***************************************************************************)
EXTENDS Integers, Sequences, FiniteSets, TLC

VARIABLES
    tests,      \* run_all_tests: the list of probes iterated by the loop
    env,        \* what the remote servers answer (Unset until first asked)
    pc,         \* position of the process
    i,          \* 1-based index of the next probe of the loop
    results,    \* self.results
    passed,     \* run_all_tests local
    total,      \* run_all_tests local
    rate,       \* success rate shown by the summary, in tenths of a percent
    ret,        \* return value of the current run_all_tests call
    fatal,      \* type of the exception that left run_all_tests, or "None"
    file,       \* content of /tmp/smtp-test-results.json
    exitCode,   \* exit status passed to exit()
    run,        \* number of run_all_tests calls started on this object
    writes,     \* history: completed writes of the report file in this run
    invoked,    \* history: indices of the probes invoked in this run
    owner,      \* history: for each entry of results, <<run, index>> of the
                \*          probe invocation that appended it
    reports     \* history: one record per run that returned

vars == <<tests, env, pc, i, results, passed, total, rate, ret, fatal, file,
          exitCode, run, writes, invoked, owner, reports>>

----------------------------------------------------------------------------
(* Bounds *)

MaxProbes == 2      \* longest arbitrary probe list
MaxRuns == 2        \* calls of run_all_tests on one object

----------------------------------------------------------------------------
(* Values *)

None == "<None>"
Unset == "<unset>"
NoReturn == "<no return>"
NoFile == <<"<no file>">>

\* An exception object, or a plain string / None passed as error=.
Exc(type, msg) == [type |-> type, msg |-> msg]
NoExc == Exc("None", "")
Str(s) == Exc("str", s)

\* bool(error): None and '' are falsy; an exception object is always truthy.
Truthy(error) ==
    CASE error.type = "None" -> FALSE
      [] error.type = "str"  -> error.msg # ""
      [] OTHER               -> TRUE

\* str(error): the message of the exception ('' for Exception()).
StrOf(error) == error.msg

\* 'authentication' in str(auth_error).lower()
MentionsAuthentication(error) ==
    StrOf(error) \in {"Authentication required", "authentication required",
                      "530 5.7.0 Authentication required"}

log_result(res, test_name, success, details, error) ==
    Append(res, [test    |-> test_name,
                 success |-> success,
                 details |-> details,
                 error   |-> IF Truthy(error) THEN StrOf(error) ELSE None])

----------------------------------------------------------------------------
(* Environment: the answers of the servers *)

Dims == {"mx", "sub", "subMail", "localRcpt", "relayRcpt", "quit", "mailhog",
         "conns", "raises"}

Values(d) ==
    CASE d = "mx"        -> {"up", "down"}             \* connect to host:25
      [] d = "sub"       -> {"up", "down"}             \* connect to host:587
      [] d = "subMail"   -> {"250", "530", "closed"}   \* reply to MAIL FROM on 587
      [] d = "localRcpt" -> {"250", "550", "closed"}   \* reply to RCPT TO ultrazend.com.br
      [] d = "relayRcpt" -> {"250", "550", "closed"}   \* reply to RCPT TO other-domain
      [] d = "quit"      -> {"221", "500"}             \* reply to QUIT
      [] d = "mailhog"   -> {"up", "down"}             \* connect to mailhog:1025
      [] d = "conns"     -> {"5", "4"}                 \* concurrent connections allowed
      [] d = "raises"    -> {"", "timeout"}            \* message of a raised error

AllValues == UNION {Values(d) : d \in Dims}

\* smtplib.SMTP(host, port): raises when the connection is refused.
Connect(state) ==
    IF state = "up" THEN NoExc
    ELSE Exc("ConnectionRefusedError", "[Errno 111] Connection refused")

\* SMTP.mail() / SMTP.rcpt(): send the command and return the reply (code, msg);
\* an error code is returned, not raised.  Only a closed connection raises.
Command(reply) ==
    IF reply = "closed"
    THEN [code |-> None, exc |-> Exc("SMTPServerDisconnected", "Connection unexpectedly closed")]
    ELSE [code |-> reply, exc |-> NoExc]

\* SMTP.__exit__: sends QUIT; raises SMTPResponseException unless the reply is
\* 221; a connection already closed is ignored.
ExitQuit(reply, closed) ==
    IF closed \/ reply = "221" THEN NoExc
    ELSE Exc("SMTPResponseException", "(500, b'Error')")

Returned(res) == [results |-> res, exc |-> NoExc]

----------------------------------------------------------------------------
(* The probes.  Each takes self.results and the servers' answers and gives  *)
(* self.results as it leaves it, and the exception it raises (NoExc when it *)
(* returns).                                                                *)

\* Variant: a port that does not answer is not logged.
test_port_connectivity_silent(res, e) ==
    LET mx   == Connect(e["mx"])
        r1   == IF mx = NoExc
                THEN log_result(res, "MX Port 25 Connectivity", TRUE, None, mx)
                ELSE res
        sub  == Connect(e["sub"])
        r2   == IF sub = NoExc
                THEN log_result(r1, "Submission Port 587 Connectivity", TRUE, None, sub)
                ELSE r1
    IN  Returned(r2)

test_port_connectivity(res, e) ==
    LET mx   == Connect(e["mx"])
        r1   == log_result(res, "MX Port 25 Connectivity", mx = NoExc, None, mx)
        sub  == Connect(e["sub"])
        r2   == log_result(r1, "Submission Port 587 Connectivity", sub = NoExc, None, sub)
    IN  Returned(r2)

\* with smtplib.SMTP(...) as server: <log success>; an exception raised by
\* __exit__ is caught by the probe's own except clause and logged as well.
WithBanner(res, e, name, details) ==
    LET conn == Connect(e["mx"])
    IN  IF conn # NoExc
        THEN Returned(log_result(res, name, FALSE, None, conn))
        ELSE LET r1 == log_result(res, name, TRUE, details, NoExc)
                 q  == ExitQuit(e["quit"], FALSE)
             IN  IF q = NoExc THEN Returned(r1)
                 ELSE Returned(log_result(r1, name, FALSE, None, q))

test_smtp_banner(res, e) == WithBanner(res, e, "SMTP Banner", "Response: banner")

test_ehlo_features(res, e) == WithBanner(res, e, "EHLO Features", "Features: list")

test_submission_auth_required(res, e) ==
    LET name == "Submission Auth Required"
        conn == Connect(e["sub"])
        mail == Command(e["subMail"])
        r1   == CASE mail.exc = NoExc ->
                       \* "If we get here without auth, it's a problem"
                       log_result(res, name, FALSE, None,
                                  Str("Submission port allows mail without authentication"))
                  [] mail.exc.type = "SMTPRecipientsRefused" ->
                       log_result(res, name, TRUE, None, NoExc)
                  [] OTHER ->
                       IF MentionsAuthentication(mail.exc)
                       THEN log_result(res, name, TRUE, None, NoExc)
                       ELSE log_result(res, name, FALSE, None, mail.exc)
        q    == ExitQuit(e["quit"], mail.exc # NoExc)
    IN  IF conn # NoExc
        THEN Returned(log_result(res, name, FALSE, None, conn))
        ELSE IF q = NoExc THEN Returned(r1)
             ELSE Returned(log_result(r1, name, FALSE, None, q))

test_mx_external_email(res, e) ==
    LET name == "MX External Email Acceptance"
        conn == Connect(e["mx"])
        rcpt == Command(e["localRcpt"])
    IN  IF conn # NoExc
        THEN Returned(log_result(res, name, FALSE, None, conn))
        ELSE IF rcpt.exc # NoExc
             THEN Returned(log_result(res, name, FALSE, None, rcpt.exc))
             \* server.quit() closed the connection: __exit__ raises nothing
             ELSE Returned(log_result(res, name, TRUE, None, NoExc))

test_relay_protection(res, e) ==
    LET name == "Relay Protection"
        conn == Connect(e["mx"])
        rcpt == Command(e["relayRcpt"])
        q    == ExitQuit(e["quit"], FALSE)
    IN  IF conn # NoExc
        THEN Returned(log_result(res, name, FALSE, None, conn))
        ELSE CASE rcpt.exc = NoExc ->
                    LET r1 == log_result(res, name, FALSE, None,
                                         Str("MX server allowed unauthorized relay"))
                    IN  IF q = NoExc THEN Returned(r1)
                        ELSE Returned(log_result(r1, name, FALSE, None, q))
               [] rcpt.exc.type = "SMTPRecipientsRefused" ->
                    LET r1 == log_result(res, name, TRUE, None, NoExc)
                    IN  IF q = NoExc THEN Returned(r1)
                        ELSE Returned(log_result(r1, name, FALSE, None, q))
               [] OTHER ->
                    \* not caught by the inner clause: the outer one logs it
                    Returned(log_result(res, name, FALSE, None, rcpt.exc))

test_send_test_email(res, e) ==
    LET name == "Send Test Email"
        conn == Connect(e["mailhog"])
        q    == ExitQuit(e["quit"], FALSE)
    IN  IF conn # NoExc
        THEN Returned(log_result(res, name, FALSE, None, conn))
        ELSE LET r1 == log_result(res, name, TRUE, "Email sent to MailHog successfully", NoExc)
             IN  IF q = NoExc THEN Returned(r1)
                 ELSE Returned(log_result(r1, name, FALSE, None, q))

test_connection_limits(res, e) ==
    LET name == "Connection Limits"
        conn == Connect(e["mx"])
    IN  IF conn # NoExc
        THEN Returned(log_result(res, name, FALSE, None, conn))
        ELSE IF e["conns"] # "5"
             THEN Returned(log_result(res, name, FALSE, None,
                                      Exc("SMTPConnectError", "(421, b'Too many connections')")))
             ELSE Returned(log_result(res, name, TRUE, "Created 5 concurrent connections", NoExc))

\* A callable of the list that raises instead of returning: the case the
\* runner's own except clause is written for.
raising_probe(res, e) == [results |-> res, exc |-> Exc("Exception", e["raises"])]

\* The list built by run_all_tests.
DeclaredTests ==
    << "test_port_connectivity", "test_smtp_banner", "test_ehlo_features",
       "test_submission_auth_required", "test_mx_external_email",
       "test_relay_protection", "test_send_test_email", "test_connection_limits" >>

ProbeNames == {DeclaredTests[k] : k \in 1..Len(DeclaredTests)} \cup {"raising_probe"}

\* The callables arbitrary lists are made of: the probe that logs twice, the
\* two policy probes and the callable that raises.  The other probes run in
\* DeclaredTests.
ListedProbes ==
    {"test_port_connectivity", "test_submission_auth_required",
     "test_relay_protection", "raising_probe"}

\* test(): the call of line 184.
Call(name, res, e) ==
    CASE name = "test_port_connectivity"        -> test_port_connectivity(res, e)
      [] name = "test_smtp_banner"              -> test_smtp_banner(res, e)
      [] name = "test_ehlo_features"            -> test_ehlo_features(res, e)
      [] name = "test_submission_auth_required" -> test_submission_auth_required(res, e)
      [] name = "test_mx_external_email"        -> test_mx_external_email(res, e)
      [] name = "test_relay_protection"         -> test_relay_protection(res, e)
      [] name = "test_send_test_email"          -> test_send_test_email(res, e)
      [] name = "test_connection_limits"        -> test_connection_limits(res, e)
      [] name = "raising_probe"                 -> raising_probe(res, e)

\* The answers a probe asks for.
Uses(name) ==
    CASE name = "test_port_connectivity"        -> {"mx", "sub"}
      [] name = "test_smtp_banner"              -> {"mx", "quit"}
      [] name = "test_ehlo_features"            -> {"mx", "quit"}
      [] name = "test_submission_auth_required" -> {"sub", "subMail", "quit"}
      [] name = "test_mx_external_email"        -> {"mx", "localRcpt"}
      [] name = "test_relay_protection"         -> {"mx", "relayRcpt", "quit"}
      [] name = "test_send_test_email"          -> {"mailhog", "quit"}
      [] name = "test_connection_limits"        -> {"mx", "conns"}
      [] name = "raising_probe"                 -> {"raises"}

----------------------------------------------------------------------------
(* The runner *)

\* Sequences over S of length at most n.
SeqsUpTo(S, n) == UNION {[1..k -> S] : k \in 0..n}

\* Repeat(x, n): the sequence of n copies of x.
Repeat(x, n) == [k \in 1..n |-> x]

\* sum(1 for r in self.results if r['success'])
RECURSIVE CountPassed(_)
CountPassed(res) ==
    IF res = <<>> THEN 0
    ELSE (IF res[1].success THEN 1 ELSE 0) + CountPassed(Tail(res))

\* f"{(passed/total)*100:.1f}", in tenths of a percent (round half to even);
\* total = 0 raises ZeroDivisionError.
SuccessRate(p, t) ==
    LET q == (p * 1000) \div t
        r == (p * 1000) % t
    IN  IF 2 * r > t THEN q + 1
        ELSE IF 2 * r = t THEN q + (q % 2)
        ELSE q

\* Variant: "except smtplib.SMTPException as e".
Caught_smtp_only(exc) ==
    exc.type \in {"SMTPServerDisconnected", "SMTPResponseException",
                  "SMTPRecipientsRefused", "SMTPConnectError"}

\* Variant: the run succeeds as soon as one probe passed.
ReturnValue_any(p, t) == p > 0

\* return passed == total
ReturnValue(p, t) == p = t

\* Variant: only the passed results are dumped.
ReportContent_passed_only(res) == SelectSeq(res, LAMBDA r : r.success)

\* json.dump(self.results, f, indent=2)
ReportContent(res) == res

\* "except Exception as e": every exception a probe raises is caught.
Caught(exc) == exc.type # "None"

\* The answers still open to the probe: an answer given once stays.
Answers(name) ==
    {c \in [Uses(name) -> AllValues] :
        \A d \in Uses(name) :
            IF env[d] = Unset THEN c[d] \in Values(d) ELSE c[d] = env[d]}

Init ==
    /\ tests \in SeqsUpTo(ListedProbes, MaxProbes) \cup {DeclaredTests}
    /\ env = [d \in Dims |-> Unset]
    /\ pc = "main"
    /\ i = 0
    /\ results = <<>>                       \* __init__
    /\ passed = 0
    /\ total = 0
    /\ rate = 0
    /\ ret = NoReturn
    /\ fatal = "None"
    /\ file = NoFile
    /\ exitCode = None
    /\ run = 0
    /\ writes = 0
    /\ invoked = <<>>
    /\ owner = <<>>
    /\ reports = <<>>

\* tester.run_all_tests() is called (again, on the same object, after it
\* returned): the list is built and the loop starts.  self.results is not
\* touched.
StartRun ==
    /\ pc \in {"main", "done"}
    /\ run < MaxRuns
    /\ run' = run + 1
    /\ pc' = "loop"
    /\ i' = 1
    /\ ret' = NoReturn
    /\ writes' = 0
    /\ invoked' = <<>>
    /\ UNCHANGED <<tests, env, results, passed, total, rate, fatal, file,
                   exitCode, owner, reports>>

\* One iteration of "for test in tests": try test(); except Exception as e:
\* log_result(test.__name__, False, error=e).
LoopBody ==
    /\ pc = "loop"
    /\ i <= Len(tests)
    /\ \E c \in Answers(tests[i]) :
          LET e   == [d \in Dims |-> IF d \in Uses(tests[i]) THEN c[d] ELSE env[d]]
              out == Call(tests[i], results, e)
              res == IF out.exc = NoExc THEN out.results
                     ELSE IF Caught(out.exc)
                          THEN log_result(out.results, tests[i], FALSE, None, out.exc)
                          ELSE out.results
          IN  /\ env' = e
              /\ results' = res
              /\ owner' = owner \o Repeat(<<run, i>>, Len(res) - Len(results))
              /\ invoked' = Append(invoked, i)
              /\ IF out.exc = NoExc \/ Caught(out.exc)
                 THEN /\ i' = i + 1
                      /\ UNCHANGED <<pc, fatal>>
                 ELSE /\ pc' = "raised"
                      /\ fatal' = out.exc.type
                      /\ UNCHANGED i
    /\ UNCHANGED <<tests, passed, total, rate, ret, file, exitCode, run,
                   writes, reports>>

\* After the loop: passed, total and the printed summary.
Summary ==
    /\ pc = "loop"
    /\ i > Len(tests)
    /\ passed' = CountPassed(results)
    /\ total' = Len(results)
    /\ IF Len(results) = 0
       THEN /\ pc' = "raised"
            /\ fatal' = "ZeroDivisionError"
            /\ UNCHANGED rate
       ELSE /\ pc' = "save"
            /\ rate' = SuccessRate(CountPassed(results), Len(results))
            /\ UNCHANGED fatal
    /\ UNCHANGED <<tests, env, i, results, ret, file, exitCode, run, writes,
                   invoked, owner, reports>>

\* Variant: a failed write is swallowed and the run reports failure.
SaveReport_swallow ==
    /\ pc = "save"
    /\ \E ok \in BOOLEAN :
          /\ pc' = "done"
          /\ fatal' = fatal
          /\ IF ok
             THEN /\ file' = ReportContent(results)
                  /\ writes' = writes + 1
                  /\ ret' = ReturnValue(passed, total)
                  /\ reports' = Append(reports, [log    |-> ReportContent(results),
                                                 passed |-> passed,
                                                 total  |-> total,
                                                 ret    |-> ReturnValue(passed, total)])
             ELSE /\ ret' = FALSE
                  /\ UNCHANGED <<file, writes, reports>>
    /\ UNCHANGED <<tests, env, i, results, passed, total, rate, exitCode, run,
                   invoked, owner>>

\* with open(...,'w') as f: json.dump(self.results, f); return passed == total.
\* open() may fail (unwritable path): the OSError leaves run_all_tests.
SaveReport ==
    /\ pc = "save"
    /\ \E ok \in BOOLEAN :
          IF ok
          THEN /\ file' = ReportContent(results)
               /\ writes' = writes + 1
               /\ ret' = ReturnValue(passed, total)
               /\ pc' = "done"
               /\ reports' = Append(reports, [log    |-> ReportContent(results),
                                              passed |-> passed,
                                              total  |-> total,
                                              ret    |-> ReturnValue(passed, total)])
               /\ UNCHANGED fatal
          ELSE /\ pc' = "raised"
               /\ fatal' = "OSError"
               /\ UNCHANGED <<file, writes, ret, reports>>
    /\ UNCHANGED <<tests, env, i, results, passed, total, rate, exitCode, run,
                   invoked, owner>>

\* __main__: exit(0) if success else exit(1).
MainExit ==
    /\ pc = "done"
    /\ pc' = "exited"
    /\ exitCode' = IF ret = TRUE THEN 0 ELSE 1
    /\ UNCHANGED <<tests, env, i, results, passed, total, rate, ret, fatal,
                   file, run, writes, invoked, owner, reports>>

Next == StartRun \/ LoopBody \/ Summary \/ SaveReport \/ MainExit

Spec == Init /\ [][Next]_vars

\* The process is sequential and every probe call is bounded by its timeout:
\* a step that can be taken is taken.
FairSpec == Spec /\ WF_vars(Next)

----------------------------------------------------------------------------
(* Properties *)

\* Positions of results appended by invocation k of the current run.
EntriesOf(k) == {j \in 1..Len(owner) : owner[j] = <<run, k>>}

\* Positions of results appended during the current run.
EntriesOfRun == {j \in 1..Len(owner) : owner[j][1] = run}

LoopEnded == pc \in {"loop", "save", "done", "exited", "raised"} /\ i > Len(tests)

\* owner[a] precedes or equals owner[b] in invocation order.
InOrder(a, b) ==
    \/ owner[a][1] < owner[b][1]
    \/ owner[a][1] = owner[b][1] /\ owner[a][2] <= owner[b][2]

AllPassed == \A j \in 1..Len(results) : results[j].success

ReachedSummary ==
    \/ pc \in {"save", "done", "exited"}
    \/ pc = "raised" /\ fatal \in {"ZeroDivisionError", "OSError"}

\* C2: the probes are invoked one by one in declared order, each once, no
\* matter what the earlier ones did, and every run of the loop reaches the
\* summary step with all of them invoked.
C2_EveryProbeInvokedInOrder ==
    /\ [](/\ Len(invoked) <= Len(tests)
          /\ \A k \in 1..Len(invoked) : invoked[k] = k
          /\ ReachedSummary => Len(invoked) = Len(tests))
    /\ ((pc = "loop") ~> ReachedSummary)

\* C2 witness: the summary is reached after a first probe that raised and a
\* second that logged a failure, both invoked.
C2_Witness ==
    /\ pc = "save"
    /\ Len(tests) = 2
    /\ tests[1] = "raising_probe"
    /\ invoked = <<1, 2>>
    /\ \A j \in 1..Len(results) : ~results[j].success

C4_ReturnsTrueIffAllPassed ==
    /\ pc \in {"done", "exited"} => /\ ret \in BOOLEAN
                                    /\ ret <=> AllPassed
                                    /\ ret <=> (total - passed = 0)
    /\ pc = "exited" => exitCode = IF AllPassed THEN 0 ELSE 1

\* C4 witness: the process exited with 0 after every probe of a list passed.
C4_Witness ==
    /\ pc = "exited" /\ exitCode = 0
    /\ Len(tests) >= 2 /\ Len(results) >= 2

\* C5: in a run the report file is written at most once, only after the last
\* probe was invoked; a run that returns has written it exactly once (a run
\* left by an exception has not written it); what is written is the whole
\* result log, and nothing is appended to the log afterwards in that run.
C5_ReportWrittenOnceAfterAllProbes ==
    /\ writes \in {0, 1}
    /\ writes = 1 => /\ i > Len(tests)
                     /\ Len(invoked) = Len(tests)
                     /\ file = results
    /\ pc \in {"done", "exited"} => writes = 1
    /\ pc \in {"loop", "save", "raised"} => writes = 0

\* C5 witness: a run over two probes returned with a report holding a failed
\* and a passed result.
C5_Witness ==
    /\ pc = "done" /\ writes = 1
    /\ Len(tests) = 2
    /\ \E a, b \in 1..Len(file) : file[a].success /\ ~file[b].success

\* C6: the step that saves the report either writes the file, or leaves
\* run_all_tests with the OSError: no return value, the result log and the
\* file as they were.
C6_WriteFailurePropagates ==
    [][pc = "save" =>
          \/ /\ writes' = writes + 1
             /\ pc' = "done"
          \/ /\ pc' = "raised"
             /\ fatal' = "OSError"
             /\ ret' = NoReturn
             /\ results' = results
             /\ owner' = owner
             /\ file' = file]_vars

\* C6 witness: the write failed after two probes logged their results.
C6_Witness ==
    /\ pc = "raised" /\ fatal = "OSError"
    /\ ret = NoReturn
    /\ Len(results) >= 2

SameOutcome(a, b) ==
    /\ Len(a.log) = Len(b.log)
    /\ \A j \in 1..Len(a.log) : j <= Len(b.log) => a.log[j].success = b.log[j].success
    /\ a.passed = b.passed
    /\ a.total = b.total
    /\ a.ret = b.ret

\* C8: every run starts from an empty result log, and two runs that returned
\* on the same object have reports of the same length, success values, counts
\* and return value.
C8_RunsStartEmptyAndAgree ==
    /\ (pc = "loop" /\ invoked = <<>>) => results = <<>>
    /\ \A a, b \in 1..Len(reports) : SameOutcome(reports[a], reports[b])

\* C9: when the server answers RCPT TO for the foreign domain with an error
\* code, 'Relay Protection' is recorded as passed; the failure 'MX server
\* allowed unauthorized relay' is recorded only when it accepts the recipient.
C9_RelayRejectionPasses ==
    \A j \in 1..Len(results) :
        results[j].test = "Relay Protection" =>
            /\ (results[j].error = "MX server allowed unauthorized relay"
                    => env["relayRcpt"] = "250")
            /\ (env["mx"] = "up" /\ env["relayRcpt"] = "550" /\ env["quit"] = "221"
                    => results[j].success)

\* C10: when the submission server answers MAIL FROM with an error code,
\* 'Submission Auth Required' is recorded as passed; the failure 'Submission
\* port allows mail without authentication' is recorded only when it accepts
\* MAIL FROM.
C10_SubmissionRefusalPasses ==
    \A j \in 1..Len(results) :
        results[j].test = "Submission Auth Required" =>
            /\ (results[j].error = "Submission port allows mail without authentication"
                    => env["subMail"] = "250")
            /\ (env["sub"] = "up" /\ env["subMail"] = "530" /\ env["quit"] = "221"
                    => results[j].success)

====
